---- MODULE Spec2Model ----
(***************************************************************************)
(* Model of SolrClient2.schema.Schema (src/src/SolrClient2/schema.py): a    *)
(* client of the Solr Schema API.  Every method sends one or two requests   *)
(* through self.solr.transport.send_request.  A method that checks before   *)
(* it writes is two steps, one per transport round trip (the existence GET, *)
(* then the POST), because the remote schema can change between the two.    *)
(* Every other method is one step.                                          *)
(***************************************************************************)
EXTENDS Integers, Sequences, FiniteSets, TLC

\* ------------------------------------------------------------------ inputs

Callers == {"c1", "c2"}
Collections == {"docs", "logs"}
FieldNames == {"sell-by", "ghost"}
FieldSpecs == [name : FieldNames, type : {"tdate"}]
TypeNames == {"tdate"}
FieldTypeSpecs == [name : TypeNames, class : {"solr.TrieDateField"}]
CopySpecs == [source : {"sell-by"}, dest : {"text"}]

\* The copy-field rules one collection of the remote holds at most.
MaxCopy == 1

VARIABLES
    remote,  \* the remote schema engine: per collection, its three lists
    pc,      \* per caller: "idle", "<method>_post" (check passed, POST pending), "done"
    op,      \* per caller: the method of the current (or last finished) call
    coll,    \* per caller: its collection argument
    arg,     \* per caller: its second argument (a spec, a name or a source/dest pair)
    reqs,    \* per caller: the requests the transport received during the call
    resps,   \* per caller: the transport's answer to each of them
    err,     \* per caller: the exception the call raised, or "none"
    ret,     \* per caller: the value the call returned
    prev     \* per caller: what the call before the current one created, if anything

vars == <<remote, pc, op, coll, arg, reqs, resps, err, ret, prev>>

\* ------------------------------------------------------- python values

None == [type |-> "NoneType", val |-> <<>>]
PyDict(v) == [type |-> "dict", val |-> v]
PyList(v) == [type |-> "list", val |-> v]
PyBool(b) == [type |-> "bool", val |-> b]

NoPrev == [coll |-> "", name |-> ""]

\* json.dumps turns the mapping into the text the transport sends; the remote
\* reads it back with json_loads.
json_dumps(obj) == [json |-> obj]
json_loads(text) == text.json

\* ------------------------------------------------- transport and remote

NoData == [none |-> TRUE]

schema_endpoint == "schema/"

GetRequest(endpoint, collection) ==
    [method |-> "GET", endpoint |-> endpoint, collection |-> collection,
     data |-> NoData]

PostRequest(endpoint, collection, data) ==
    [method |-> "POST", endpoint |-> endpoint, collection |-> collection,
     data |-> data]

NamesOf(list) == {list[i].name : i \in DOMAIN list}

IndexOfName(list, name) ==
    CHOOSE i \in DOMAIN list :
        /\ list[i].name = name
        /\ \A j \in DOMAIN list : j < i => list[j].name # name

IndexOfRule(list, rule) ==
    CHOOSE i \in DOMAIN list :
        /\ list[i] = rule
        /\ \A j \in DOMAIN list : j < i => list[j] # rule

RemoveAt(list, i) == SubSeq(list, 1, i - 1) \o SubSeq(list, i + 1, Len(list))

Accepted == [status |-> 0]
Rejected == [status |-> 400]

\* The remote's answer to a GET of one of the three read endpoints.
RemoteGet(rem, req) ==
    LET s == rem[req.collection] IN
    CASE req.endpoint = "schema/fields" -> [fields |-> s.fields]
      [] req.endpoint = "schema/fieldtypes" -> [fieldTypes |-> s.fieldTypes]
      [] req.endpoint = "schema/copyfields" -> [copyFields |-> s.copyFields]

\* Whether the remote can apply command cmd with value v to the schema s.
RemoteValid(s, cmd, v) ==
    CASE cmd = "add-field" -> v.name \notin NamesOf(s.fields)
      [] cmd = "replace-field" -> v.name \in NamesOf(s.fields)
      [] cmd = "delete-field" -> v.name \in NamesOf(s.fields)
      [] cmd = "add-field-type" -> v.name \notin NamesOf(s.fieldTypes)
      [] cmd = "replace-field-type" -> v.name \in NamesOf(s.fieldTypes)
      [] cmd = "add-copy-field" -> Len(s.copyFields) < MaxCopy
      [] cmd = "delete-copy-field" -> \E i \in DOMAIN s.copyFields : s.copyFields[i] = v
      [] OTHER -> FALSE

\* The schema after the remote applied a valid command.
RemoteApply(s, cmd, v) ==
    CASE cmd = "add-field" -> [s EXCEPT !.fields = Append(@, v)]
      [] cmd = "replace-field" ->
            [s EXCEPT !.fields = [@ EXCEPT ![IndexOfName(s.fields, v.name)] = v]]
      [] cmd = "delete-field" ->
            [s EXCEPT !.fields = RemoveAt(@, IndexOfName(s.fields, v.name))]
      [] cmd = "add-field-type" -> [s EXCEPT !.fieldTypes = Append(@, v)]
      [] cmd = "replace-field-type" ->
            [s EXCEPT !.fieldTypes =
                [@ EXCEPT ![IndexOfName(s.fieldTypes, v.name)] = v]]
      [] cmd = "add-copy-field" -> [s EXCEPT !.copyFields = Append(@, v)]
      [] cmd = "delete-copy-field" ->
            [s EXCEPT !.copyFields = RemoveAt(@, IndexOfRule(s.copyFields, v))]

\* The remote's handling of a POST to schema/: the single command of the body
\* is applied when the remote accepts it (willing, and the command is valid),
\* and otherwise the schema is left as it is.
RemotePost(rem, req, willing) ==
    LET body == json_loads(req.data)
        cmd == CHOOSE k \in DOMAIN body : TRUE
        s == rem[req.collection]
    IN  IF willing /\ req.endpoint = "schema/" /\ Cardinality(DOMAIN body) = 1
           /\ RemoteValid(s, cmd, body[cmd])
        THEN [remote |-> [rem EXCEPT ![req.collection] = RemoteApply(s, cmd, body[cmd])],
              response |-> Accepted]
        ELSE [remote |-> rem, response |-> Rejected]

\* ------------------------------------------------------- Schema: reads

\* Mutant: the class also defines delete_field_type.
SchemaAttrs_with_delete_field_type ==
    {"get_schema_fields", "get_schema_copyfields", "create_field", "replace_field",
     "delete_field", "does_field_exist", "get_field", "does_copy_field_exist",
     "create_copy_field", "delete_copy_field", "get_schema_field_types",
     "does_field_type_exist", "create_field_type", "get_field_type",
     "replace_field_type", "delete_field_type"}

\* The methods class Schema defines.
SchemaAttrs ==
    {"get_schema_fields", "get_schema_copyfields", "create_field", "replace_field",
     "delete_field", "does_field_exist", "get_field", "does_copy_field_exist",
     "create_copy_field", "delete_copy_field", "get_schema_field_types",
     "does_field_type_exist", "create_field_type", "get_field_type",
     "replace_field_type"}

\* The exception of looking a method up on a Schema object, "none" when the
\* class defines it.
getattr_err(attr) == IF attr \in SchemaAttrs THEN "none" ELSE "AttributeError"

get_schema_fields_request(collection) == GetRequest("schema/fields", collection)
get_schema_copyfields_request(collection) == GetRequest("schema/copyfields", collection)
get_schema_field_types_request(collection) == GetRequest("schema/fieldtypes", collection)

\* Mutant: the list under "fields", as get_schema_copyfields does it.
get_schema_fields_return_list(res) == PyList(res.fields)

\* What the three getters return of the parsed response res.
get_schema_fields_return(res) == PyDict(res)
get_schema_copyfields_return(res) == PyList(res.copyFields)
get_schema_field_types_return(res) == PyDict(res)

\* Mutant: the field's type is compared where its name should be.
does_field_exist_return_by_type(schema, field_name) ==
    field_name \in {schema.val.fields[i].type : i \in DOMAIN schema.val.fields}

does_field_exist_return(schema, field_name) ==
    field_name \in {schema.val.fields[i].name : i \in DOMAIN schema.val.fields}

does_field_type_exist_return(schema_types, field_type_name) ==
    field_type_name \in
        {schema_types.val.fieldTypes[i].name : i \in DOMAIN schema_types.val.fieldTypes}

does_copy_field_exist_return(copy_fields, source_field_name, dest_field_name) ==
    \E i \in DOMAIN copy_fields.val :
        /\ copy_fields.val[i].source = source_field_name
        /\ copy_fields.val[i].dest = dest_field_name

\* The loop of get_field and get_field_type: the first record of the list
\* under key whose name is the one asked for, a KeyError when the mapping has
\* no such key, a ValueError when the loop ends without a match.
SearchByName(mapping, key, name) ==
    IF key \notin DOMAIN mapping.val
    THEN [err |-> "KeyError", ret |-> None]
    ELSE LET list == mapping.val[key] IN
         IF name \in NamesOf(list)
         THEN [err |-> "none", ret |-> PyDict(list[IndexOfName(list, name)])]
         ELSE [err |-> "ValueError", ret |-> None]

get_field_outcome(schema, field_name) == SearchByName(schema, "fieldTypes", field_name)

get_field_type_outcome(schema_types, field_type_name) ==
    SearchByName(schema_types, "fieldTypes", field_type_name)

\* ------------------------------------------------------ Schema: writes

\* Mutant: create_field never raises.
create_field_raises_never(exists) == FALSE

\* Mutant: delete_field raises on a field that exists.
delete_field_raises_inverted(exists) == exists

\* Whether the method raises ValueError after its existence check.
create_field_raises(exists) == exists
replace_field_raises(exists) == ~exists
delete_field_raises(exists) == ~exists
create_field_type_raises(exists) == exists
replace_field_type_raises(exists) == ~exists

\* Mutant: delete_copy_field raises when the rule is not among the copy fields.
delete_copy_field_raises_if_absent(copy_dict, copyfields) ==
    \A i \in DOMAIN copyfields.val : copyfields.val[i] # copy_dict

\* delete_copy_field only logs that the rule is not among the copy fields.
delete_copy_field_raises(copy_dict, copyfields) == FALSE

\* Mutant: only the name of the dict is sent.
create_field_data_name_only(field_dict) ==
    json_dumps("add-field" :> [name |-> field_dict.name])

\* Mutant: the key of another command.
delete_field_data_wrong_key(field_name) ==
    json_dumps("delete-copy-field" :> [name |-> field_name])

\* Mutant: the key of another command.
create_copy_field_data_wrong_key(copy_dict) == json_dumps("add-field" :> copy_dict)

\* The data of each method's POST: json.dumps of a single-key mapping around
\* a shallow copy of the caller's dict.
create_field_data(field_dict) == json_dumps("add-field" :> field_dict)
replace_field_data(field_dict) == json_dumps("replace-field" :> field_dict)
delete_field_data(field_name) == json_dumps("delete-field" :> [name |-> field_name])
create_copy_field_data(copy_dict) == json_dumps("add-copy-field" :> copy_dict)
delete_copy_field_data(copy_dict) == json_dumps("delete-copy-field" :> copy_dict)
create_field_type_data(field_type_dict) == json_dumps("add-field-type" :> field_type_dict)
replace_field_type_data(field_type_dict) ==
    json_dumps("replace-field-type" :> field_type_dict)

\* A writing method returns the parsed response of its POST.
post_return(res) == PyDict(res)

\* ------------------------------------------------------------- the calls

Init ==
    /\ remote = [cl \in Collections |->
                    [fields |-> <<>>, fieldTypes |-> <<>>, copyFields |-> <<>>]]
    /\ pc = [c \in Callers |-> "idle"]
    /\ op = [c \in Callers |-> "none"]
    /\ coll = [c \in Callers |-> ""]
    /\ arg = [c \in Callers |-> None]
    /\ reqs = [c \in Callers |-> <<>>]
    /\ resps = [c \in Callers |-> <<>>]
    /\ err = [c \in Callers |-> "none"]
    /\ ret = [c \in Callers |-> None]
    /\ prev = [c \in Callers |-> NoPrev]

\* A caller starts a call when it runs none: every call is synchronous.
CanCall(c) == pc[c] \in {"idle", "done"}

\* The field the call c has just finished created, if it is a create_field
\* that returned the remote's acceptance.
PrevOf(c) ==
    IF /\ pc[c] = "done"
       /\ op[c] = "create_field"
       /\ err[c] = "none"
       /\ ret[c] = PyDict(Accepted)
    THEN [coll |-> coll[c], name |-> arg[c].name]
    ELSE NoPrev

\* Caller c starts the call o(cl, a), which after its first round trips rq
\* (answered rs) is at p, having raised e or returned r.
Do(c, o, cl, a, p, rq, rs, e, r) ==
    /\ pc' = [pc EXCEPT ![c] = p]
    /\ op' = [op EXCEPT ![c] = o]
    /\ coll' = [coll EXCEPT ![c] = cl]
    /\ arg' = [arg EXCEPT ![c] = a]
    /\ reqs' = [reqs EXCEPT ![c] = rq]
    /\ resps' = [resps EXCEPT ![c] = rs]
    /\ err' = [err EXCEPT ![c] = e]
    /\ ret' = [ret EXCEPT ![c] = r]
    /\ prev' = [prev EXCEPT ![c] = PrevOf(c)]

\* The call of c sends its POST with the given data and returns the response.
Post(c, data) ==
    \E willing \in BOOLEAN :
        LET rq == PostRequest(schema_endpoint, coll[c], data)
            out == RemotePost(remote, rq, willing)
        IN  /\ remote' = out.remote
            /\ pc' = [pc EXCEPT ![c] = "done"]
            /\ reqs' = [reqs EXCEPT ![c] = Append(@, rq)]
            /\ resps' = [resps EXCEPT ![c] = Append(@, out.response)]
            /\ ret' = [ret EXCEPT ![c] = post_return(out.response)]
            /\ UNCHANGED <<op, coll, arg, err, prev>>

get_schema_fields(c, collection) ==
    /\ CanCall(c)
    /\ LET rq == get_schema_fields_request(collection)
           res == RemoteGet(remote, rq)
       IN  Do(c, "get_schema_fields", collection, None, "done", <<rq>>, <<res>>,
              "none", get_schema_fields_return(res))
    /\ UNCHANGED remote

get_schema_copyfields(c, collection) ==
    /\ CanCall(c)
    /\ LET rq == get_schema_copyfields_request(collection)
           res == RemoteGet(remote, rq)
       IN  Do(c, "get_schema_copyfields", collection, None, "done", <<rq>>, <<res>>,
              "none", get_schema_copyfields_return(res))
    /\ UNCHANGED remote

get_schema_field_types(c, collection) ==
    /\ CanCall(c)
    /\ LET rq == get_schema_field_types_request(collection)
           res == RemoteGet(remote, rq)
       IN  Do(c, "get_schema_field_types", collection, None, "done", <<rq>>, <<res>>,
              "none", get_schema_field_types_return(res))
    /\ UNCHANGED remote

does_field_exist(c, collection, field_name) ==
    /\ CanCall(c)
    /\ LET rq == get_schema_fields_request(collection)
           res == RemoteGet(remote, rq)
           schema == get_schema_fields_return(res)
       IN  Do(c, "does_field_exist", collection, field_name, "done", <<rq>>, <<res>>,
              "none", PyBool(does_field_exist_return(schema, field_name)))
    /\ UNCHANGED remote

does_field_type_exist(c, collection, field_type_name) ==
    /\ CanCall(c)
    /\ LET rq == get_schema_field_types_request(collection)
           res == RemoteGet(remote, rq)
           schema_types == get_schema_field_types_return(res)
       IN  Do(c, "does_field_type_exist", collection, field_type_name, "done",
              <<rq>>, <<res>>, "none",
              PyBool(does_field_type_exist_return(schema_types, field_type_name)))
    /\ UNCHANGED remote

does_copy_field_exist(c, collection, copy_dict) ==
    /\ CanCall(c)
    /\ LET rq == get_schema_copyfields_request(collection)
           res == RemoteGet(remote, rq)
           copy_fields == get_schema_copyfields_return(res)
       IN  Do(c, "does_copy_field_exist", collection, copy_dict, "done",
              <<rq>>, <<res>>, "none",
              PyBool(does_copy_field_exist_return(copy_fields, copy_dict.source,
                                                  copy_dict.dest)))
    /\ UNCHANGED remote

get_field(c, collection, field_name) ==
    /\ CanCall(c)
    /\ LET rq == get_schema_fields_request(collection)
           res == RemoteGet(remote, rq)
           out == get_field_outcome(get_schema_fields_return(res), field_name)
       IN  Do(c, "get_field", collection, field_name, "done", <<rq>>, <<res>>,
              out.err, out.ret)
    /\ UNCHANGED remote

get_field_type(c, collection, field_type_name) ==
    /\ CanCall(c)
    /\ LET rq == get_schema_field_types_request(collection)
           res == RemoteGet(remote, rq)
           out == get_field_type_outcome(get_schema_field_types_return(res),
                                         field_type_name)
       IN  Do(c, "get_field_type", collection, field_type_name, "done",
              <<rq>>, <<res>>, out.err, out.ret)
    /\ UNCHANGED remote

\* The first half of a method that checks before it writes: the GET rq of the
\* existence check, then ValueError or on to the POST.
Check(c, o, cl, a, rq, res, raises) ==
    /\ CanCall(c)
    /\ IF raises
       THEN Do(c, o, cl, a, "done", <<rq>>, <<res>>, "ValueError", None)
       ELSE Do(c, o, cl, a, o \o "_post", <<rq>>, <<res>>, "none", None)
    /\ UNCHANGED remote

create_field_check(c, collection, field_dict) ==
    LET rq == get_schema_fields_request(collection)
        res == RemoteGet(remote, rq)
        exists == does_field_exist_return(get_schema_fields_return(res), field_dict.name)
    IN  Check(c, "create_field", collection, field_dict, rq, res,
              create_field_raises(exists))

create_field_post(c) ==
    /\ pc[c] = "create_field_post"
    /\ Post(c, create_field_data(arg[c]))

replace_field_check(c, collection, field_dict) ==
    LET rq == get_schema_fields_request(collection)
        res == RemoteGet(remote, rq)
        exists == does_field_exist_return(get_schema_fields_return(res), field_dict.name)
    IN  Check(c, "replace_field", collection, field_dict, rq, res,
              replace_field_raises(exists))

replace_field_post(c) ==
    /\ pc[c] = "replace_field_post"
    /\ Post(c, replace_field_data(arg[c]))

delete_field_check(c, collection, field_name) ==
    LET rq == get_schema_fields_request(collection)
        res == RemoteGet(remote, rq)
        exists == does_field_exist_return(get_schema_fields_return(res), field_name)
    IN  Check(c, "delete_field", collection, field_name, rq, res,
              delete_field_raises(exists))

delete_field_post(c) ==
    /\ pc[c] = "delete_field_post"
    /\ Post(c, delete_field_data(arg[c]))

create_field_type_check(c, collection, field_type_dict) ==
    LET rq == get_schema_field_types_request(collection)
        res == RemoteGet(remote, rq)
        exists == does_field_type_exist_return(get_schema_field_types_return(res),
                                               field_type_dict.name)
    IN  Check(c, "create_field_type", collection, field_type_dict, rq, res,
              create_field_type_raises(exists))

create_field_type_post(c) ==
    /\ pc[c] = "create_field_type_post"
    /\ Post(c, create_field_type_data(arg[c]))

replace_field_type_check(c, collection, field_type_dict) ==
    LET rq == get_schema_field_types_request(collection)
        res == RemoteGet(remote, rq)
        exists == does_field_type_exist_return(get_schema_field_types_return(res),
                                               field_type_dict.name)
    IN  Check(c, "replace_field_type", collection, field_type_dict, rq, res,
              replace_field_type_raises(exists))

replace_field_type_post(c) ==
    /\ pc[c] = "replace_field_type_post"
    /\ Post(c, replace_field_type_data(arg[c]))

delete_copy_field_check(c, collection, copy_dict) ==
    LET rq == get_schema_copyfields_request(collection)
        res == RemoteGet(remote, rq)
        copyfields == get_schema_copyfields_return(res)
    IN  Check(c, "delete_copy_field", collection, copy_dict, rq, res,
              delete_copy_field_raises(copy_dict, copyfields))

delete_copy_field_post(c) ==
    /\ pc[c] = "delete_copy_field_post"
    /\ Post(c, delete_copy_field_data(arg[c]))

\* create_copy_field sends its POST at once.
create_copy_field(c, collection, copy_dict) ==
    /\ CanCall(c)
    /\ \E willing \in BOOLEAN :
        LET rq == PostRequest(schema_endpoint, collection,
                              create_copy_field_data(copy_dict))
            out == RemotePost(remote, rq, willing)
        IN  /\ remote' = out.remote
            /\ Do(c, "create_copy_field", collection, copy_dict, "done", <<rq>>,
                  <<out.response>>, "none", post_return(out.response))

\* class Schema defines no delete_field_type: the attribute lookup of the call
\* raises before anything is sent.
delete_field_type(c, collection, field_type_name) ==
    /\ CanCall(c)
    /\ Do(c, "delete_field_type", collection, field_type_name, "done", <<>>, <<>>,
          getattr_err("delete_field_type"), None)
    /\ UNCHANGED remote

\* One caller: the calls follow one another.
Next ==
    \E cl \in Collections :
        \/ get_schema_fields("c1", cl)
        \/ get_schema_copyfields("c1", cl)
        \/ get_schema_field_types("c1", cl)
        \/ \E n \in FieldNames : does_field_exist("c1", cl, n)
        \/ \E n \in TypeNames : does_field_type_exist("c1", cl, n)
        \/ \E d \in CopySpecs : does_copy_field_exist("c1", cl, d)
        \/ \E n \in FieldNames : get_field("c1", cl, n)
        \/ \E n \in TypeNames : get_field_type("c1", cl, n)
        \/ \E d \in FieldSpecs : create_field_check("c1", cl, d)
        \/ create_field_post("c1")
        \/ \E d \in FieldSpecs : replace_field_check("c1", cl, d)
        \/ replace_field_post("c1")
        \/ \E n \in FieldNames : delete_field_check("c1", cl, n)
        \/ delete_field_post("c1")
        \/ \E d \in FieldTypeSpecs : create_field_type_check("c1", cl, d)
        \/ create_field_type_post("c1")
        \/ \E d \in FieldTypeSpecs : replace_field_type_check("c1", cl, d)
        \/ replace_field_type_post("c1")
        \/ \E d \in CopySpecs : create_copy_field("c1", cl, d)
        \/ \E d \in CopySpecs : delete_copy_field_check("c1", cl, d)
        \/ delete_copy_field_post("c1")
        \/ \E n \in TypeNames : delete_field_type("c1", cl, n)

Spec == Init /\ [][Next]_vars

\* Two callers of the field methods on one collection, their round trips
\* interleaved.
NextConc ==
    \E c \in Callers :
        \/ \E d \in FieldSpecs : create_field_check(c, "docs", d)
        \/ create_field_post(c)
        \/ \E n \in FieldNames : delete_field_check(c, "docs", n)
        \/ delete_field_post(c)

SpecConc == Init /\ [][NextConc]_vars

\* ------------------------------------------------------------ properties

\* r is a value of python type t equal to v.
RetIs(r, t, v) == r.type = t /\ r.val = v

FieldOps == {"create_field", "replace_field", "delete_field"}
FieldTypeOps == {"create_field_type", "replace_field_type"}
CreateOps == {"create_field", "create_field_type"}

\* The name the call of c is about.
CallName(c) == IF op[c] = "delete_field" THEN arg[c] ELSE arg[c].name

\* The names of the snapshot the existence check of c fetched.
SeenNames(c) ==
    IF op[c] \in FieldOps
    THEN NamesOf(resps[c][1].fields)
    ELSE NamesOf(resps[c][1].fieldTypes)

\* The GET of the existence check of c.
CheckRequest(c) ==
    IF op[c] \in FieldOps
    THEN GetRequest("schema/fields", coll[c])
    ELSE GetRequest("schema/fieldtypes", coll[c])

PreconditionFails(c) ==
    IF op[c] \in CreateOps THEN CallName(c) \in SeenNames(c)
    ELSE CallName(c) \notin SeenNames(c)

NoPost(c) == \A i \in DOMAIN reqs[c] : reqs[c][i].method # "POST"

\* C1: create_field, create_field_type, replace_field, replace_field_type and
\* delete_field, called on a name that fails the precondition (create: present
\* in the fetched snapshot; replace, delete: absent from it), raise before any
\* POST: the transport received the GET of the existence check and nothing
\* else, and the remote still holds what the GET returned.
C1_PreconditionErrorBeforePost ==
    \A c \in Callers :
        (op[c] \in FieldOps \cup FieldTypeOps /\ PreconditionFails(c)) =>
            /\ pc[c] = "done"
            /\ err[c] = "ValueError"
            /\ reqs[c] = <<CheckRequest(c)>>
            /\ NoPost(c)
            /\ resps[c][1] = RemoteGet(remote, reqs[c][1])

C1_Witness ==
    \E c \in Callers :
        /\ op[c] = "create_field_type"
        /\ pc[c] = "done"
        /\ PreconditionFails(c)

\* C2: create_field on a name absent from the collection's fields sends, after
\* the existence GET, exactly one POST, to schema/ of that collection, with
\* data {"add-field": field_dict}, the dict unchanged, and returns the
\* response of that POST unchanged.
C2_CreateFieldPostsAddField ==
    \A c \in Callers :
        (op[c] = "create_field" /\ ~PreconditionFails(c)) =>
            /\ err[c] = "none"
            /\ \/ pc[c] = "create_field_post" /\ reqs[c] = <<CheckRequest(c)>>
               \/ /\ pc[c] = "done"
                  /\ reqs[c] = <<CheckRequest(c),
                                 PostRequest("schema/", coll[c],
                                             json_dumps("add-field" :> arg[c]))>>
                  /\ RetIs(ret[c], "dict", resps[c][2])

C2_Witness ==
    \E c \in Callers :
        /\ op[c] = "create_field"
        /\ pc[c] = "done"
        /\ err[c] = "none"
        /\ RetIs(ret[c], "dict", Accepted)
        /\ coll[c] = "docs"
        /\ arg[c].name = "sell-by"

\* C3: with one caller and a remote that applies the add-field it accepts:
\* right after a create_field that succeeded, does_field_exist of that
\* collection and name returns True, and a second create_field of that name
\* raises ValueError and sends no POST.
C3_CreateThenExists ==
    \A c \in Callers :
        (prev[c] # NoPrev /\ pc[c] # "idle" /\ coll[c] = prev[c].coll) =>
            /\ (op[c] = "does_field_exist" /\ arg[c] = prev[c].name) =>
                    RetIs(ret[c], "bool", TRUE)
            /\ (op[c] = "create_field" /\ arg[c].name = prev[c].name) =>
                    /\ pc[c] = "done"
                    /\ err[c] = "ValueError"
                    /\ NoPost(c)

C3_Witness ==
    \E c \in Callers :
        /\ prev[c] # NoPrev
        /\ op[c] = "create_field"
        /\ coll[c] = prev[c].coll
        /\ arg[c].name = prev[c].name
        /\ err[c] = "ValueError"

\* C4: get_field returns the record of the fetched fields whose name is the
\* one asked for, and raises ValueError (the not-found error) when there is
\* none; it fails in no other way.
C4_GetFieldSearchesFields ==
    \A c \in Callers :
        (op[c] = "get_field" /\ pc[c] = "done") =>
            LET list == resps[c][1].fields IN
            IF arg[c] \in NamesOf(list)
            THEN /\ err[c] = "none"
                 /\ RetIs(ret[c], "dict", list[IndexOfName(list, arg[c])])
            ELSE err[c] = "ValueError"

\* The data the POST of a writing call of c is to carry.
ExpectedData(c) ==
    CASE op[c] = "delete_field" -> json_dumps("delete-field" :> [name |-> arg[c]])
      [] op[c] = "replace_field" -> json_dumps("replace-field" :> arg[c])
      [] op[c] = "replace_field_type" -> json_dumps("replace-field-type" :> arg[c])

\* C5: delete_field, replace_field and replace_field_type on a name that is in
\* the fetched snapshot send, after the existence GET, exactly one POST, to
\* schema/ of the given collection, with the single-key data of the method.
C5_OnePostOnExistingName ==
    \A c \in Callers :
        (op[c] \in {"delete_field", "replace_field", "replace_field_type"}
         /\ ~PreconditionFails(c)) =>
            /\ err[c] = "none"
            /\ \/ pc[c] = op[c] \o "_post" /\ reqs[c] = <<CheckRequest(c)>>
               \/ /\ pc[c] = "done"
                  /\ reqs[c] = <<CheckRequest(c),
                                 PostRequest("schema/", coll[c], ExpectedData(c))>>

C5_Witness ==
    \E c \in Callers :
        /\ op[c] = "delete_field"
        /\ pc[c] = "done"
        /\ err[c] = "none"
        /\ Len(reqs[c]) = 2

\* The rule of the delete_copy_field of c is not among the rules it fetched.
RuleAbsent(c) ==
    \A i \in DOMAIN resps[c][1].copyFields : resps[c][1].copyFields[i] # arg[c]

\* C6: delete_copy_field never raises, also when the rule is not among the
\* collection's copy fields: it fetches them once (GET schema/copyfields),
\* then sends exactly one POST to schema/ with data {"delete-copy-field":
\* copy_dict} and returns the response of that POST.
C6_DeleteCopyFieldAlwaysPosts ==
    \A c \in Callers :
        (op[c] = "delete_copy_field" /\ pc[c] # "idle") =>
            /\ err[c] = "none"
            /\ \/ /\ pc[c] = "delete_copy_field_post"
                  /\ reqs[c] = <<GetRequest("schema/copyfields", coll[c])>>
               \/ /\ pc[c] = "done"
                  /\ reqs[c] = <<GetRequest("schema/copyfields", coll[c]),
                                 PostRequest("schema/", coll[c],
                                     json_dumps("delete-copy-field" :> arg[c]))>>
                  /\ RetIs(ret[c], "dict", resps[c][2])

C6_Witness ==
    \E c \in Callers :
        /\ op[c] = "delete_copy_field"
        /\ pc[c] = "done"
        /\ RuleAbsent(c)
        /\ Len(reqs[c]) = 2

\* C7: create_copy_field checks nothing first: whatever the remote holds, the
\* call sends exactly one request, the POST to schema/ with data
\* {"add-copy-field": copy_dict}, no GET, and raises nothing.
C7_CreateCopyFieldPostsOnly ==
    \A c \in Callers :
        (op[c] = "create_copy_field" /\ pc[c] # "idle") =>
            /\ pc[c] = "done"
            /\ err[c] = "none"
            /\ reqs[c] = <<PostRequest("schema/", coll[c],
                               json_dumps("add-copy-field" :> arg[c]))>>

\* The rule was there before the call: the call did not add it.
C7_Witness ==
    \E c \in Callers :
        /\ op[c] = "create_copy_field"
        /\ pc[c] = "done"
        /\ resps[c] = <<Rejected>>
        /\ \E i \in DOMAIN remote[coll[c]].copyFields :
                remote[coll[c]].copyFields[i] = arg[c]

\* C8 as stated: get_schema_fields and get_schema_field_types return the list
\* under "fields" / "fieldTypes" of the response, as get_schema_copyfields
\* returns the list under "copyFields".
C8_GettersReturnLists ==
    \A c \in Callers :
        pc[c] = "done" =>
            /\ op[c] = "get_schema_fields" =>
                    RetIs(ret[c], "list", resps[c][1].fields)
            /\ op[c] = "get_schema_field_types" =>
                    RetIs(ret[c], "list", resps[c][1].fieldTypes)
            /\ op[c] = "get_schema_copyfields" =>
                    RetIs(ret[c], "list", resps[c][1].copyFields)

\* C8 amended: get_schema_fields and get_schema_field_types return the whole
\* response mapping, {"fields": [...]} / {"fieldTypes": [...]}, whose one
\* entry holds the records now defined on the collection; only
\* get_schema_copyfields returns the list itself.
C8_GettersReturnResponse ==
    \A c \in Callers :
        pc[c] = "done" =>
            /\ op[c] = "get_schema_fields" =>
                    RetIs(ret[c], "dict", [fields |-> remote[coll[c]].fields])
            /\ op[c] = "get_schema_field_types" =>
                    RetIs(ret[c], "dict", [fieldTypes |-> remote[coll[c]].fieldTypes])
            /\ op[c] = "get_schema_copyfields" =>
                    RetIs(ret[c], "list", remote[coll[c]].copyFields)

C8_Witness ==
    \E c \in Callers :
        /\ op[c] = "get_schema_fields"
        /\ pc[c] = "done"
        /\ Len(remote[coll[c]].fields) = 2

\* C9 as stated: delete_field_type raises ValueError (the not-found error)
\* and sends no POST on a name absent from the field types, and sends exactly
\* one POST to schema/ with a single-key delete body on a name present.
C9_DeleteFieldTypeLikeDeleteField ==
    \A c \in Callers :
        (op[c] = "delete_field_type" /\ pc[c] = "done") =>
            IF arg[c] \notin NamesOf(remote[coll[c]].fieldTypes)
            THEN err[c] = "ValueError" /\ NoPost(c)
            ELSE /\ err[c] = "none"
                 /\ Cardinality({i \in DOMAIN reqs[c] : reqs[c][i].method = "POST"}) = 1

\* C9 amended: the client has no delete_field_type: the call raises
\* AttributeError, whether the name is among the field types or not, and
\* sends nothing, no GET and no POST.
C9_NoDeleteFieldType ==
    \A c \in Callers :
        (op[c] = "delete_field_type" /\ pc[c] # "idle") =>
            /\ pc[c] = "done"
            /\ err[c] = "AttributeError"
            /\ reqs[c] = <<>>
            /\ ret[c] = None

C9_Witness ==
    \E c \in Callers :
        /\ op[c] = "delete_field_type"
        /\ pc[c] = "done"
        /\ arg[c] \in NamesOf(remote[coll[c]].fieldTypes)

C10_StaleDelete ==
    \E c \in Callers :
        /\ pc[c] = "delete_field_post"
        /\ arg[c] \notin NamesOf(remote[coll[c]].fields)

====
